---- MODULE Spec2Model ----
(***************************************************************************)
(* A model of src/oceanoptics.py: the USB4000 session object, its public   *)
(* operations and the transfers each of them performs on the four bulk     *)
(* channels of the spectrometer.                                           *)
(*                                                                         *)
(* The USB transport (pyusb) is the environment.  Every write and every    *)
(* read of a call is given an outcome by the environment: a write either   *)
(* succeeds or raises USBError; a read either raises USBError (a timeout   *)
(* included) or returns AT MOST the number of bytes asked for.             *)
(* Each public method is one action.  The action runs the whole method     *)
(* against the environment's answers and records, in `last', the method,   *)
(* its argument, the ordered log of the device calls and channel transfers *)
(* it made, and how it ended (a returned value or the exception raised).   *)
(* Assertions are modelled as enabled (the interpreter's default).         *)
(***************************************************************************)
EXTENDS Integers, Sequences, FiniteSets, TLC

----
\* Bounds of the model.

\* the number of explicit init() calls one session makes
MaxInitCalls == 2

\* the number of calls the concurrent callers make
MaxConcCalls == 2

----
\* Program constants.

\* src/oceanoptics.py:111
OP_INIT == 1
\* src/oceanoptics.py:129
OP_SET_I == 2
\* src/oceanoptics.py:143
OP_ASK == 5
\* src/oceanoptics.py:202
OP_GET_SPECTRA == 9
\* src/oceanoptics.py:194
OP_SET_TRIGGER == 10
\* src/oceanoptics.py:178
OP_READ_REG == 107
\* src/oceanoptics.py:178
REG_FIRMWARE == 4
\* src/oceanoptics.py:162
OP_READ_TEMP == 108
\* src/oceanoptics.py:226
OP_ASK_2 == 254
\* src/oceanoptics.py:170
TEMP_ECHO == 8
\* src/oceanoptics.py:212
SYNC_BYTE == 105
\* src/oceanoptics.py:122
MIN_DT == 10
\* src/oceanoptics.py:125
MAX_DT == 65535000
\* src/oceanoptics.py:142
NUM_REGS == 19
\* src/oceanoptics.py:146
CONFIG_LEN == 64
\* src/oceanoptics.py:214
FRAME_LEN == 3840
\* src/oceanoptics.py:216
LO_SAMPLES == 1024

\* src/oceanoptics.py:207  (512*4)
LO_BYTES_DOUBLE == 512 * 8

LO_BYTES == 512 * 4
\* src/oceanoptics.py:208  (512*11)
HI_BYTES == 512 * 11

Channels == {"cmd_w", "cmd_r", "spec_lo", "spec_hi"}

----
\* Bytes and struct.pack / struct.unpack.

\* 256^n for n < 4 (the model's integers are those below 2^31)
Pow256(n) == IF n = 0 THEN 1 ELSE IF n = 1 THEN 256 ELSE IF n = 2 THEN 65536
             ELSE 16777216

\* the n-byte little-endian encoding of v (struct '<' formats), 0 <= v < 256^n
LE(v, n) == [i \in 1..n |-> (v \div Pow256(i - 1)) % 256]

\* struct.pack accepts an unsigned field of n bytes only within its range
\* (every integer of the model is below 256^4)
Fits(v, n) == 0 <= v /\ (n >= 4 \/ v < Pow256(n))

\* b[lo:hi] of Python: a slice clipped to the length of b (0-based, hi excluded)
Slice(b, lo, hi) ==
    LET h == IF hi < Len(b) THEN hi ELSE Len(b)
    IN  IF lo >= h THEN << >> ELSE [i \in 1..(h - lo) |-> b[lo + i]]

\* struct.unpack of an unsigned little-endian field that is exactly b
RECURSIVE UnpackLE(_)
UnpackLE(b) == IF b = << >> THEN 0 ELSE Head(b) + 256 * UnpackLE(Tail(b))

\* struct.unpack of an unsigned big-endian field that is exactly b
RECURSIVE UnpackBE(_)
UnpackBE(b) == IF b = << >> THEN 0
               ELSE Head(b) * Pow256(Len(b) - 1) + UnpackBE(Tail(b))

UnpackUnsignedLE16(b) == UnpackLE(b)

\* struct.unpack('<h', b): the signed little-endian 16-bit value
UnpackSignedLE16(b) == LET u == UnpackLE(b) IN IF u >= 32768 THEN u - 65536 ELSE u

----
\* Log entries and outcomes.

\* The bytes a read returns are named by a buffer [lit, n, a, b]: the bytes of
\* lit followed by n bytes of which byte i (from 0) is (a * i + b) mod 256.
Ramp(n, a, b) == [i \in 1..n |-> (a * (i - 1) + b) % 256]

Bytes(buf) == buf.lit \o Ramp(buf.n, buf.a, buf.b)

Lit(bytes) == [lit |-> bytes, n |-> 0, a |-> 0, b |-> 0]

RampBuf(n, a, b) == [lit |-> << >>, n |-> n, a |-> a, b |-> b]

\* bytes followed by NULs up to n bytes
Padded(bytes, n) == [lit |-> bytes, n |-> n - Len(bytes), a |-> 0, b |-> 0]

\* one call on the device or one transfer on a channel: data are the bytes
\* written, got is the buffer read
Entry(ch, call, size, timeout, data, got, ok) ==
    [ch |-> ch, call |-> call, size |-> size, timeout |-> timeout,
     data |-> data, got |-> got, ok |-> ok]

\* endpoint.write(data): the environment's answer is w, TRUE for success
Write(data, w) == Entry("cmd_w", "write", Len(data), 0, data, Lit(<< >>), w)

\* endpoint.read(size, timeout): the answer r is [ok, buf]
Read(ch, size, timeout, r) ==
    Entry(ch, "read", size, timeout, << >>, IF r.ok THEN r.buf ELSE Lit(<< >>), r.ok)

\* a call on the device object itself, no channel involved
DevCall(call, ok) == Entry("device", call, 0, 0, << >>, Lit(<< >>), ok)

Returned(v) == [kind |-> "value", val |-> v]
ReturnedNone == [kind |-> "None", val |-> 0]
Raised(e) == [kind |-> e, val |-> 0]

Result(log, out) == [log |-> log, out |-> out]

\* the answers a read can get
ReadFail == [ok |-> FALSE, buf |-> Lit(<< >>)]
ReadOk(buf) == [ok |-> TRUE, buf |-> buf]

\* the transfers of a log that are on one of the four channels
ChannelEntries(log) == {i \in 1..Len(log) : log[i].ch \in Channels}

\* the byte sequences successfully written to command-out, in order
RECURSIVE Commands(_)
Commands(log) ==
    IF log = << >> THEN << >>
    ELSE IF Head(log).ch = "cmd_w" /\ Head(log).ok
         THEN <<Head(log).data>> \o Commands(Tail(log))
         ELSE Commands(Tail(log))

----
\* USB4000.init

init_cmd == <<OP_INIT>>

Run_init(w) ==
    IF w THEN Result(<<Write(init_cmd, TRUE)>>, ReturnedNone)
    ELSE Result(<<Write(init_cmd, FALSE)>>, Raised("USBError"))

----
\* USB4000.set_integration_time

IsNumber(arg) == arg.type \in {"int", "bool", "long", "float"}

\* isinstance(x, int) of Python 2: int and its subclass bool, not long
IsInt(arg) == arg.type \in {"int", "bool"}

ClampNoLow(dt) == IF dt > MAX_DT THEN MAX_DT ELSE dt

\* the two range tests of set_integration_time, in the code's order
Clamp(dt) ==
    LET d1 == IF dt < MIN_DT THEN MIN_DT ELSE dt
    IN  IF d1 > MAX_DT THEN MAX_DT ELSE d1

Run_set_integration_time(arg, w) ==
    IF IsInt(arg)
    THEN LET dt == Clamp(arg.val)
         IN  IF ~Fits(dt, 4) THEN Result(<< >>, Raised("struct.error"))
             ELSE LET cmd == <<OP_SET_I>> \o LE(dt, 4)
                  IN  IF w THEN Result(<<Write(cmd, TRUE)>>, Returned(Len(cmd)))
                      ELSE Result(<<Write(cmd, FALSE)>>, Raised("USBError"))
    ELSE Result(<< >>, ReturnedNone)

----
\* USB4000.set_trigger_mode

Run_set_trigger_mode_ack(arg, w) ==
    IF IsInt(arg)
    THEN IF ~Fits(arg.val, 2) THEN Result(<< >>, Raised("struct.error"))
         ELSE LET cmd == <<OP_SET_TRIGGER>> \o LE(arg.val, 2)
                  ack == Read("cmd_r", 1, 1000, [ok |-> TRUE, buf |-> Lit(<<OP_SET_TRIGGER>>)])
              IN  IF w THEN Result(<<Write(cmd, TRUE), ack>>, Returned(Len(cmd)))
                  ELSE Result(<<Write(cmd, FALSE)>>, Raised("USBError"))
    ELSE Result(<< >>, ReturnedNone)

Run_set_trigger_mode(arg, w) ==
    IF IsInt(arg)
    THEN IF ~Fits(arg.val, 2) THEN Result(<< >>, Raised("struct.error"))
         ELSE LET cmd == <<OP_SET_TRIGGER>> \o LE(arg.val, 2)
              IN  IF w THEN Result(<<Write(cmd, TRUE)>>, Returned(Len(cmd)))
                  ELSE Result(<<Write(cmd, FALSE)>>, Raised("USBError"))
    ELSE Result(<< >>, ReturnedNone)

----
\* USB4000.read_temp

\* src/oceanoptics.py:174, the factor 0.003906 in millionths
TEMP_SCALE_MICRO == 3906

TempEchoIsOpcode(resp) == Slice(resp, 0, 1) = <<OP_READ_TEMP>>

\* the assertion of read_temp on the response
TempEchoOk(resp) == Slice(resp, 0, 1) = <<TEMP_ECHO>>

\* the value read_temp computes from a response, or the exception it raises
DecodeTemp(resp) ==
    IF ~TempEchoOk(resp) THEN Raised("AssertionError")
    ELSE IF Len(Slice(resp, 1, 3)) # 2 THEN Raised("struct.error")
    ELSE Returned(UnpackSignedLE16(Slice(resp, 1, 3)) * TEMP_SCALE_MICRO)

Run_read_temp_retry(w, r) ==
    LET cmd == <<OP_READ_TEMP>>
        rd == Read("cmd_r", 3, 1000, r)
        ws == IF w THEN <<Write(cmd, TRUE)>> ELSE <<Write(cmd, FALSE), Write(cmd, TRUE)>>
    IN  IF ~r.ok THEN Result(ws \o <<rd>>, Raised("USBError"))
        ELSE Result(ws \o <<rd>>, DecodeTemp(Bytes(r.buf)))

Run_read_temp(w, r) ==
    LET cmd == <<OP_READ_TEMP>>
        rd == Read("cmd_r", 3, 1000, r)
    IN  IF ~w THEN Result(<<Write(cmd, FALSE)>>, Raised("USBError"))
        ELSE IF ~r.ok THEN Result(<<Write(cmd, TRUE), rd>>, Raised("USBError"))
        ELSE Result(<<Write(cmd, TRUE), rd>>, DecodeTemp(Bytes(r.buf)))

----
\* USB4000.firmware_version

DecodeFirmwareChecked(resp) ==
    IF Slice(resp, 0, 1) # <<REG_FIRMWARE>> THEN Raised("AssertionError")
    ELSE IF Len(Slice(resp, 1, 3)) # 2 THEN Raised("struct.error")
    ELSE Returned(UnpackBE(Slice(resp, 1, 3)))

\* the value firmware_version computes from a response (its echo assertion is
\* commented out in the source), or the exception it raises
DecodeFirmware(resp) ==
    IF Len(Slice(resp, 1, 3)) # 2 THEN Raised("struct.error")
    ELSE Returned(UnpackBE(Slice(resp, 1, 3)))

Run_firmware_version(w, r) ==
    LET cmd == <<OP_READ_REG, REG_FIRMWARE>>
        rd == Read("cmd_r", 3, 200, r)
    IN  IF ~w THEN Result(<<Write(cmd, FALSE)>>, Raised("USBError"))
        ELSE IF ~r.ok THEN Result(<<Write(cmd, TRUE), rd>>, Raised("USBError"))
        ELSE Result(<<Write(cmd, TRUE), rd>>, DecodeFirmware(Bytes(r.buf)))

----
\* USB4000.get_status

\* src/oceanoptics.py:229
STATUS_LEN == 16

\* the slices get_status unpacks, as (first, last excluded), in the code's order
StatusFields == <<
    [name |-> "num_pixels", lo |-> 0, hi |-> 2],
    [name |-> "integration_time", lo |-> 2, hi |-> 6],
    [name |-> "lamp_enable", lo |-> 6, hi |-> 7],
    [name |-> "trigger_mode", lo |-> 7, hi |-> 8],
    [name |-> "acq_status", lo |-> 8, hi |-> 9],
    [name |-> "packets_in_spectra", lo |-> 9, hi |-> 10],
    [name |-> "power_down", lo |-> 10, hi |-> 11],
    [name |-> "packet_count", lo |-> 11, hi |-> 12],
    [name |-> "usb_speed", lo |-> 14, hi |-> 15] >>

DecodeStatusSpeedAt12(resp) ==
    IF \E i \in 1..Len(StatusFields) :
          Len(Slice(resp, StatusFields[i].lo, StatusFields[i].hi))
             # StatusFields[i].hi - StatusFields[i].lo
    THEN Raised("struct.error")
    ELSE Returned(
        [num_pixels |-> UnpackLE(Slice(resp, 0, 2)),
         integration_time |-> UnpackLE(Slice(resp, 2, 6)),
         lamp_enable |-> UnpackLE(Slice(resp, 6, 7)) # 0,
         trigger_mode |-> UnpackLE(Slice(resp, 7, 8)),
         acq_status |-> UnpackLE(Slice(resp, 8, 9)),
         packets_in_spectra |-> UnpackLE(Slice(resp, 9, 10)),
         power_down |-> UnpackLE(Slice(resp, 10, 11)) # 0,
         packet_count |-> UnpackLE(Slice(resp, 11, 12)),
         usb_speed |-> UnpackLE(Slice(resp, 12, 13))])

\* the value get_status computes from a response, or the exception it raises:
\* struct.unpack fails on a slice that a short response leaves too short
DecodeStatus(resp) ==
    IF \E i \in 1..Len(StatusFields) :
          Len(Slice(resp, StatusFields[i].lo, StatusFields[i].hi))
             # StatusFields[i].hi - StatusFields[i].lo
    THEN Raised("struct.error")
    ELSE Returned(
        [num_pixels |-> UnpackLE(Slice(resp, 0, 2)),
         integration_time |-> UnpackLE(Slice(resp, 2, 6)),
         lamp_enable |-> UnpackLE(Slice(resp, 6, 7)) # 0,
         trigger_mode |-> UnpackLE(Slice(resp, 7, 8)),
         acq_status |-> UnpackLE(Slice(resp, 8, 9)),
         packets_in_spectra |-> UnpackLE(Slice(resp, 9, 10)),
         power_down |-> UnpackLE(Slice(resp, 10, 11)) # 0,
         packet_count |-> UnpackLE(Slice(resp, 11, 12)),
         usb_speed |-> UnpackLE(Slice(resp, 14, 15))])

Run_get_status(w, r) ==
    LET cmd == <<OP_ASK_2>>
        rd == Read("cmd_r", STATUS_LEN, 1000, r)
    IN  IF ~w THEN Result(<<Write(cmd, FALSE)>>, Raised("USBError"))
        ELSE IF ~r.ok THEN Result(<<Write(cmd, TRUE), rd>>, Raised("USBError"))
        ELSE Result(<<Write(cmd, TRUE), rd>>, DecodeStatus(Bytes(r.buf)))

----
\* USB4000.query_config

\* the module's table config_regs
config_regs == [x \in 0..(NUM_REGS - 1) |->
    CASE x = 0 -> "serial_number"
      [] x = 1 -> "0_order_wavelength_coeff"
      [] x = 2 -> "1_order_wavelength_coeff"
      [] x = 3 -> "2_order_wavelength_coeff"
      [] x = 4 -> "3_order_wavelength_coeff"
      [] x = 5 -> "stray_light_constant"
      [] x = 6 -> "0_order_nonlinear_coeff"
      [] x = 7 -> "1_order_nonlinear_coeff"
      [] x = 8 -> "2_order_nonlinear_coeff"
      [] x = 9 -> "3_order_nonlinear_coeff"
      [] x = 10 -> "4_order_nonlinear_coeff"
      [] x = 11 -> "5_order_nonlinear_coeff"
      [] x = 12 -> "6_order_nonlinear_coeff"
      [] x = 13 -> "7_order_nonlinear_coeff"
      [] x = 14 -> "polynomial_order"
      [] x = 15 -> "bench_configuration"
      [] x = 16 -> "USB4000_config"
      [] x = 17 -> "autonull"
      [] x = 18 -> "baud_rate"]

RegNames == {config_regs[x] : x \in 0..(NUM_REGS - 1)}

\* bytes.decode('ascii', errors='ignore'): the bytes above 127 are dropped
DecodeAscii(b) == SelectSeq(b, LAMBDA c : c < 128)

\* str.strip('\x00'): the NULs at both ends are removed
RECURSIVE StripLeft(_)
StripLeft(t) == IF t # << >> /\ Head(t) = 0 THEN StripLeft(Tail(t)) ELSE t

RECURSIVE StripRight(_)
StripRight(t) == IF t # << >> /\ t[Len(t)] = 0
                 THEN StripRight(SubSeq(t, 1, Len(t) - 1)) ELSE t

StripNul(t) == StripRight(StripLeft(t))

\* struct.pack('<2B', 0x05, x), the query of register x
ConfigCmdNext(x) == <<OP_ASK, x + 1>>

ConfigCmd(x) == <<OP_ASK, x>>

\* the assertion of query_config on the response to register x
ConfigEchoOkNoIndex(resp, x) == Slice(resp, 0, 1) = <<OP_ASK>>

ConfigEchoOk(resp, x) == Slice(resp, 0, 2) = <<OP_ASK, x>>

\* config.update({name : value})
DictUpdate(d, k, v) == [n \in (DOMAIN d) \cup {k} |-> IF n = k THEN v ELSE d[n]]

EmptyDict == [n \in {} |-> << >>]

\* the loop of query_config from register x on, with the mapping and the log
\* built so far; e.w[x] and e.r[x] are the environment's answers for register x
RECURSIVE ConfigLoop(_, _, _, _)
ConfigLoop(x, config, log, e) ==
    IF x >= NUM_REGS THEN Result(log, Returned(config))
    ELSE LET cmd == ConfigCmd(x)
             rd == Read("cmd_r", CONFIG_LEN, 1000, e.r[x])
         IN  IF ~e.w[x] THEN Result(Append(log, Write(cmd, FALSE)), Raised("USBError"))
             ELSE LET log2 == log \o <<Write(cmd, TRUE), rd>>
                      resp == Bytes(e.r[x].buf)
                  IN  IF ~e.r[x].ok THEN Result(log2, Raised("USBError"))
                      ELSE IF ~ConfigEchoOk(resp, x)
                           THEN Result(log2, Raised("AssertionError"))
                      ELSE ConfigLoop(x + 1,
                               DictUpdate(config, config_regs[x],
                                   StripNul(DecodeAscii(Slice(resp, 2, Len(resp))))),
                               log2, e)

Run_query_config_pipelined(e) ==
    LET res == ConfigLoop(0, EmptyDict, << >>, e)
        IsWrite(t) == t.call = "write"
        IsRead(t) == t.call = "read"
    IN  Result(SelectSeq(res.log, IsWrite) \o SelectSeq(res.log, IsRead), res.out)

Run_query_config(e) == ConfigLoop(0, EmptyDict, << >>, e)

----
\* USB4000.request_spectra

\* numpy.frombuffer(b, dtype='<u2'): the little-endian 16-bit samples of b
Samples(b) == [j \in 1..(Len(b) \div 2) |-> b[2 * j - 1] + 256 * b[2 * j]]

\* data[a:b] = v of numpy for a slice of n elements: v is copied when it has n
\* elements and repeated (broadcast) when it has one; any other length raises
Assignable(v, n) == Len(v) = n \/ Len(v) = 1

Assigned(v, n) == [j \in 1..n |-> IF Len(v) = 1 THEN v[1] ELSE v[j]]

SyncOkAny(sync) == TRUE

\* the assertion of request_spectra on the byte read after the spectrum
SyncOk(sync) == sync[1] = SYNC_BYTE

\* what request_spectra does with the three reads once they have returned
Assemble(data_lo, data_hi, data_sync) ==
    IF Len(data_sync) # 1 THEN Raised("struct.error")
    ELSE IF ~SyncOk(data_sync) THEN Raised("AssertionError")
    ELSE IF Len(data_lo) % 2 # 0 \/ Len(data_hi) % 2 # 0 THEN Raised("ValueError")
    ELSE IF ~Assignable(Samples(data_lo), LO_SAMPLES) THEN Raised("ValueError")
    ELSE IF ~Assignable(Samples(data_hi), FRAME_LEN - LO_SAMPLES)
         THEN Raised("ValueError")
    ELSE Returned(Assigned(Samples(data_lo), LO_SAMPLES)
                  \o Assigned(Samples(data_hi), FRAME_LEN - LO_SAMPLES))

Run_request_spectra_hi_first(e) ==
    LET cmd == <<OP_GET_SPECTRA>>
        w == Write(cmd, e.w)
        lo == Read("spec_lo", LO_BYTES, 20, e.lo)
        hi == Read("spec_hi", HI_BYTES, 20, e.hi)
        sy == Read("spec_hi", 1, 20, e.sync)
    IN  IF ~e.w THEN Result(<<w>>, Raised("USBError"))
        ELSE IF ~e.hi.ok THEN Result(<<w, hi>>, Raised("USBError"))
        ELSE IF ~e.lo.ok THEN Result(<<w, hi, lo>>, Raised("USBError"))
        ELSE IF ~e.sync.ok THEN Result(<<w, hi, lo, sy>>, Raised("USBError"))
        ELSE Result(<<w, hi, lo, sy>>, Assemble(Bytes(e.lo.buf), Bytes(e.hi.buf), Bytes(e.sync.buf)))

Run_request_spectra(e) ==
    LET cmd == <<OP_GET_SPECTRA>>
        w == Write(cmd, e.w)
        lo == Read("spec_lo", LO_BYTES, 20, e.lo)
        hi == Read("spec_hi", HI_BYTES, 20, e.hi)
        sy == Read("spec_hi", 1, 20, e.sync)
    IN  IF ~e.w THEN Result(<<w>>, Raised("USBError"))
        ELSE IF ~e.lo.ok THEN Result(<<w, lo>>, Raised("USBError"))
        ELSE IF ~e.hi.ok THEN Result(<<w, lo, hi>>, Raised("USBError"))
        ELSE IF ~e.sync.ok THEN Result(<<w, lo, hi, sy>>, Raised("USBError"))
        ELSE Result(<<w, lo, hi, sy>>, Assemble(Bytes(e.lo.buf), Bytes(e.hi.buf), Bytes(e.sync.buf)))

----
\* USB4000.reset and USB4000.close

Run_reset(ok) ==
    Result(<<DevCall("reset", ok)>>, IF ok THEN ReturnedNone ELSE Raised("USBError"))

Run_close_noop == Result(<< >>, ReturnedNone)

Run_close == Result(<<DevCall("dispose_resources", TRUE)>>, ReturnedNone)

----
\* USB4000.__new__ and USB4000.__init__

\* the endpoint addresses __init__ binds, in the code's order
Endpoints == <<[name |-> "_cmd_w", addr |-> 1], [name |-> "_spec_hi", addr |-> 130],
               [name |-> "_spec_lo", addr |-> 134], [name |-> "_cmd_r", addr |-> 129]>>

Bind(i) ==
    Entry("device", "find_descriptor", 0, 0, <<Endpoints[i].addr>>, Lit(<< >>), TRUE)

Run_configure_no_reset(e) ==
    Result(<<DevCall("is_kernel_driver_active", TRUE),
             DevCall("set_configuration", TRUE)>>, ReturnedNone)

\* the steps of __init__ up to the configuration and the reset; e gives the
\* environment's answers.  The handler of the USBError of set_configuration
\* and reset formats a string without a placeholder, which raises TypeError.
Run_configure(e) ==
    LET probe == <<DevCall("is_kernel_driver_active", TRUE)>>
        detach == IF e.kernel THEN <<DevCall("detach_kernel_driver", e.detach)>>
                  ELSE << >>
        log1 == probe \o detach
    IN  IF e.kernel /\ ~e.detach THEN Result(log1, Raised("USBError"))
        ELSE IF ~e.setcfg
             THEN Result(log1 \o <<DevCall("set_configuration", FALSE)>>,
                         Raised("TypeError"))
        ELSE IF ~e.reset
             THEN Result(log1 \o <<DevCall("set_configuration", TRUE),
                                   DevCall("reset", FALSE)>>, Raised("TypeError"))
        ELSE Result(log1 \o <<DevCall("set_configuration", TRUE),
                              DevCall("reset", TRUE)>>, ReturnedNone)

Run_bind_only(log, w) ==
    Result(log \o <<DevCall("get_active_configuration", TRUE),
                    Bind(1), Bind(2), Bind(3), Bind(4)>>, ReturnedNone)

\* the rest of __init__: the four endpoints are bound, then init() is called
Run_bind_and_init(log, w) ==
    LET log1 == log \o <<DevCall("get_active_configuration", TRUE),
                         Bind(1), Bind(2), Bind(3), Bind(4)>>
        i == Run_init(w)
    IN  Result(log1 \o i.log, i.out)

\* USB4000(): __new__ raises RuntimeError when no device is found
Run_construct(e) ==
    IF ~e.found THEN Result(<<DevCall("find", FALSE)>>, Raised("RuntimeError"))
    ELSE LET c == Run_configure(e)
             log0 == <<DevCall("find", TRUE)>> \o c.log
         IN  IF c.out.kind # "None" THEN Result(log0, c.out)
             ELSE Run_bind_and_init(log0, e.w)

----
\* The answers of the environment that the model tries.

\* every operation: a write succeeds or raises USBError
WriteAnswers == BOOLEAN

TempAnswers == {ReadFail} \cup {ReadOk(Lit(b)) : b \in
    {<< >>, <<8>>, <<8, 100>>, <<8, 100, 0>>, <<8, 255, 255>>, <<8, 0, 128>>,
     <<108, 100, 0>>, <<0, 100, 0>>}}

FirmwareAnswers == {ReadFail} \cup {ReadOk(Lit(b)) : b \in
    {<< >>, <<4>>, <<4, 1>>, <<4, 1, 44>>, <<107, 1, 44>>, <<0, 255, 255>>,
     <<107, 4, 0>>}}

\* the status block of the specification's example, and variations of it
StatusExample == <<2, 0, 16, 39, 0, 0, 1, 0, 0, 1, 0, 5, 0, 0, 2, 0>>

StatusAnswers == {ReadFail} \cup {ReadOk(Lit(b)) : b \in
    {StatusExample,
     [StatusExample EXCEPT ![13] = 7, ![14] = 9, ![16] = 1],
     [StatusExample EXCEPT ![1] = 254, ![7] = 0, ![11] = 3, ![15] = 0],
     Ramp(STATUS_LEN, 17, 250),
     SubSeq(StatusExample, 1, 15), SubSeq(StatusExample, 1, 14),
     SubSeq(StatusExample, 1, 3), << >>}}

\* the text register x holds, in two variants: plain, and with NULs inside
\* and in front and a byte that is not ASCII
ConfigText(p, x) == IF p = 0 THEN <<65, 48 + (x % 10)>>
                    ELSE <<0, 200, 66, 0, 67 + x>>

\* a response to the query of register x that echoes it
GoodResp(p, x) == Padded(<<OP_ASK, x>> \o ConfigText(p, x), CONFIG_LEN)

ConfigFaults == {"b0", "b1", "len1", "readfail", "writefail"}

\* a response to the query of register x that does not echo it
BadResp(kind, p, x) ==
    CASE kind = "b0" -> Padded(<<OP_ASK + 1, x>> \o ConfigText(p, x), CONFIG_LEN)
      [] kind = "b1" -> Padded(<<OP_ASK, (x + 1) % NUM_REGS>> \o ConfigText(p, x),
                               CONFIG_LEN)
      [] OTHER -> Lit(<<OP_ASK>>)

\* the device answers every register but failAt well (failAt = NUM_REGS: all)
ConfigEnv(failAt, kind, p) ==
    [w |-> [x \in 0..(NUM_REGS - 1) |-> ~(x = failAt /\ kind = "writefail")],
     r |-> [x \in 0..(NUM_REGS - 1) |->
              IF x # failAt THEN ReadOk(GoodResp(p, x))
              ELSE IF kind = "readfail" THEN ReadFail
              ELSE ReadOk(BadResp(kind, p, x))]]

ConfigEnvs == {ConfigEnv(NUM_REGS, "b0", p) : p \in {0, 1}}
              \cup {ConfigEnv(k, kind, 0) : k \in 0..(NUM_REGS - 1),
                                            kind \in ConfigFaults}

\* the low and the high spectral read: full reads and short ones
LoAnswers == {ReadFail, ReadOk(RampBuf(LO_BYTES, 1, 0)),
              ReadOk(RampBuf(LO_BYTES, 3, 7)), ReadOk(Lit(<<52, 18>>)),
              ReadOk(RampBuf(LO_BYTES - 2, 1, 0))}

HiAnswers == {ReadFail, ReadOk(RampBuf(HI_BYTES, 5, 1)),
              ReadOk(RampBuf(HI_BYTES, 1, 9)), ReadOk(Lit(<<205, 171>>)),
              ReadOk(Lit(<<1, 2, 3>>))}

SyncAnswers == {ReadFail, ReadOk(Lit(<< >>)), ReadOk(Lit(<<SYNC_BYTE>>)),
                ReadOk(Lit(<<SYNC_BYTE - 1>>)), ReadOk(Lit(<<0>>))}

\* an answer to every transfer of request_spectra; the answers to the transfers
\* after a failed one are not used, and are fixed to keep the set small
NotReached == ReadFail

SpectraEnvs ==
    {[w |-> FALSE, lo |-> NotReached, hi |-> NotReached, sync |-> NotReached]}
    \cup {[w |-> TRUE, lo |-> ReadFail, hi |-> NotReached, sync |-> NotReached]}
    \cup {[w |-> TRUE, lo |-> lo, hi |-> ReadFail, sync |-> NotReached] :
             lo \in LoAnswers \ {ReadFail}}
    \cup [w : {TRUE}, lo : LoAnswers \ {ReadFail}, hi : HiAnswers \ {ReadFail},
          sync : SyncAnswers]

\* what query_config and request_spectra do under each of these answers (the
\* methods read no field of the session but the endpoints)
ConfigResults == {Run_query_config(e) : e \in ConfigEnvs}

SpectraResults == {Run_request_spectra(e) : e \in SpectraEnvs}

ConstructEnvs == [found : BOOLEAN, kernel : BOOLEAN, detach : BOOLEAN,
                  setcfg : BOOLEAN, reset : BOOLEAN, w : WriteAnswers]

\* the integration times tried: both sides of each range test, and the
\* largest integer of the model
DtValues == {0 - 5, 0, 9, 10, 11, 1000, 65534999, 65535000, 65535001,
             2147483647}

\* the trigger modes tried: the range of the 16-bit field and both sides of it
ModeValues == {0 - 1, 0, 1, 3, 258, 65535, 65536}

\* arguments that are not of Python's type int
OtherArgs == {[type |-> "long", val |-> 1000], [type |-> "float", val |-> 1000],
              [type |-> "str", val |-> 0]}

DtArgs == [type : {"int"}, val : DtValues] \cup OtherArgs
          \cup {[type |-> "bool", val |-> 1]}

ModeArgs == [type : {"int"}, val : ModeValues] \cup OtherArgs
            \cup {[type |-> "bool", val |-> 1]}

----
\* The session.

VARIABLES
    session,    \* "absent": no object constructed; "open": __init__ returned
    closed,     \* close() has been called on the session (a history variable)
    initCalls,  \* explicit init() calls that wrote their command
    initWrites, \* initialize commands written to command-out in the session
    firstCmd,   \* the first byte sequence written to command-out, << >> if none
    last,       \* the last operation: [op, arg, log, out, afterClose,
                \* prev]; prev is, for close(), how the operation before it ended
    resources,  \* "held": the device handle and interface are claimed
    thread,     \* concurrent callers: each caller's position in its method
    pending,    \* concurrent callers: per channel, the responses not yet read
    started,    \* concurrent callers: the calls made so far
    misread     \* concurrent callers: a caller read another caller's response

seqVars == <<session, closed, initCalls, initWrites, firstCmd, last, resources>>

concVars == <<thread, pending, started, misread>>

vars == <<session, closed, initCalls, initWrites, firstCmd, last, resources,
          thread, pending, started, misread>>

\* the callers of the concurrent specification
Callers == {1, 2}

Idle == [op |-> "none", pc |-> "idle", x |-> 0, lo |-> Lit(<< >>),
         hi |-> Lit(<< >>), out |-> "None"]

NoPending == [ch \in {"cmd_r", "spec_lo", "spec_hi"} |-> << >>]

NoArg == [type |-> "none", val |-> 0]

\* the public operations of a constructed session
PublicOps == {"init", "set_integration_time", "set_trigger_mode", "query_config",
              "read_temp", "firmware_version", "request_spectra", "get_status",
              "reset", "close"}

Init ==
    /\ session = "absent"
    /\ closed = FALSE
    /\ initCalls = 0
    /\ initWrites = 0
    /\ firstCmd = << >>
    /\ last = [op |-> "none", arg |-> NoArg, log |-> << >>, out |-> ReturnedNone,
               afterClose |-> FALSE, prev |-> "none"]
    /\ resources = "released"
    /\ thread = [c \in Callers |-> Idle]
    /\ pending = NoPending
    /\ started = 0
    /\ misread = FALSE

\* the transport after the calls of a log: dispose_resources releases the
\* handle and the interface; any other successful call that talks to the
\* device (usb.core.find and find_descriptor do not) claims them (again)
Resources(before, log) ==
    LET used == {i \in 1..Len(log) :
                    /\ log[i].ok
                    /\ \/ log[i].ch \in Channels
                       \/ log[i].call \notin {"find", "find_descriptor"}}
        n == CHOOSE i \in used : \A j \in used : j <= i
    IN  IF used = {} THEN before
        ELSE IF log[n].call = "dispose_resources" THEN "released" ELSE "held"

\* what a finished operation leaves in the history variables
Finish(op, arg, res) ==
    LET cmds == Commands(res.log)
        inits == Cardinality({i \in 1..Len(cmds) : cmds[i] = init_cmd})
    IN  /\ last' = [op |-> op, arg |-> arg, log |-> res.log, out |-> res.out,
                    afterClose |-> closed,
                    prev |-> IF op = "close" THEN last.out.kind ELSE "none"]
        /\ resources' = Resources(resources, res.log)
        /\ initWrites' = initWrites + inits
        /\ firstCmd' = IF firstCmd = << >> /\ cmds # << >> THEN cmds[1] ELSE firstCmd
        /\ UNCHANGED concVars

\* USB4000(): the object exists only if neither __new__ nor __init__ raised
Construct ==
    /\ session = "absent"
    /\ \E e \in ConstructEnvs :
          LET res == Run_construct(e)
          IN  /\ Finish("__init__", NoArg, res)
              /\ session' = IF res.out.kind = "None" THEN "open" ELSE "absent"
    /\ UNCHANGED <<closed, initCalls>>

InitCall ==
    /\ session = "open"
    /\ initCalls < MaxInitCalls
    /\ \E w \in WriteAnswers :
          /\ Finish("init", NoArg, Run_init(w))
          /\ initCalls' = IF w THEN initCalls + 1 ELSE initCalls
    /\ UNCHANGED <<session, closed>>

SetIntegrationTime ==
    /\ session = "open"
    /\ \E arg \in DtArgs, w \in WriteAnswers :
          Finish("set_integration_time", arg, Run_set_integration_time(arg, w))
    /\ UNCHANGED <<session, closed, initCalls>>

SetTriggerMode ==
    /\ session = "open"
    /\ \E arg \in ModeArgs, w \in WriteAnswers :
          Finish("set_trigger_mode", arg, Run_set_trigger_mode(arg, w))
    /\ UNCHANGED <<session, closed, initCalls>>

QueryConfig ==
    /\ session = "open"
    /\ \E res \in ConfigResults : Finish("query_config", NoArg, res)
    /\ UNCHANGED <<session, closed, initCalls>>

ReadTemp ==
    /\ session = "open"
    /\ \E w \in WriteAnswers, r \in TempAnswers :
          Finish("read_temp", NoArg, Run_read_temp(w, r))
    /\ UNCHANGED <<session, closed, initCalls>>

FirmwareVersion ==
    /\ session = "open"
    /\ \E w \in WriteAnswers, r \in FirmwareAnswers :
          Finish("firmware_version", NoArg, Run_firmware_version(w, r))
    /\ UNCHANGED <<session, closed, initCalls>>

RequestSpectra ==
    /\ session = "open"
    /\ \E res \in SpectraResults : Finish("request_spectra", NoArg, res)
    /\ UNCHANGED <<session, closed, initCalls>>

\* get_status(), also reached through the property `status'
GetStatus ==
    /\ session = "open"
    /\ \E w \in WriteAnswers, r \in StatusAnswers :
          Finish("get_status", NoArg, Run_get_status(w, r))
    /\ UNCHANGED <<session, closed, initCalls>>

Reset ==
    /\ session = "open"
    /\ \E ok \in BOOLEAN : Finish("reset", NoArg, Run_reset(ok))
    /\ UNCHANGED <<session, closed, initCalls>>

Close ==
    /\ session = "open"
    /\ Finish("close", NoArg, Run_close)
    /\ closed' = TRUE
    /\ UNCHANGED <<session, initCalls>>

Next ==
    \/ Construct
    \/ InitCall
    \/ SetIntegrationTime
    \/ SetTriggerMode
    \/ QueryConfig
    \/ ReadTemp
    \/ FirmwareVersion
    \/ RequestSpectra
    \/ GetStatus
    \/ Reset
    \/ Close

Spec == Init /\ [][Next]_vars

----
\* Two callers on one session.  The methods hold no lock, and a thread can be
\* descheduled between any two transfers, so each transfer is a step here.
\* The device answers the commands in the order it receives them; a read
\* takes the oldest response waiting on its channel, cut to the size asked
\* for, and times out when none is waiting.

\* the methods that read a response
ReadingOps == {"query_config", "read_temp", "firmware_version", "get_status",
               "request_spectra"}

\* the command a method writes (query_config: for register x)
CmdOf(op, x) ==
    CASE op = "query_config" -> ConfigCmd(x)
      [] op = "read_temp" -> <<OP_READ_TEMP>>
      [] op = "firmware_version" -> <<OP_READ_REG, REG_FIRMWARE>>
      [] op = "get_status" -> <<OP_ASK_2>>
      [] OTHER -> <<OP_GET_SPECTRA>>

\* the size of the read of command-in a method makes
ReadSizeOf(op) ==
    CASE op = "query_config" -> CONFIG_LEN
      [] op = "get_status" -> STATUS_LEN
      [] OTHER -> 3

\* what the device queues in answer to a command of caller c
DeviceAnswer(c, cmd) ==
    LET tok(buf) == [owner |-> c, buf |-> buf]
    IN  CASE cmd[1] = OP_ASK ->
               [NoPending EXCEPT !["cmd_r"] = <<tok(GoodResp(0, cmd[2]))>>]
          [] cmd[1] = OP_READ_TEMP ->
               [NoPending EXCEPT !["cmd_r"] = <<tok(Lit(<<TEMP_ECHO, 100, 0>>))>>]
          [] cmd[1] = OP_READ_REG ->
               [NoPending EXCEPT !["cmd_r"] = <<tok(Lit(<<REG_FIRMWARE, 1, 44>>))>>]
          [] cmd[1] = OP_ASK_2 ->
               [NoPending EXCEPT !["cmd_r"] = <<tok(Lit(StatusExample))>>]
          [] OTHER ->
               [NoPending EXCEPT
                   !["spec_lo"] = <<tok(RampBuf(LO_BYTES, 1, 0))>>,
                   !["spec_hi"] = <<tok(RampBuf(HI_BYTES, 5, 1)),
                                    tok(Lit(<<SYNC_BYTE>>))>>]

\* the first size bytes of a buffer
Cut(buf, size) == Lit(Slice(Bytes(buf), 0, size))

Ended(c, kind) == [Idle EXCEPT !.op = thread[c].op, !.out = kind]

InitConc ==
    /\ session = "open"
    /\ closed = FALSE
    /\ initCalls = 0
    /\ initWrites = 1
    /\ firstCmd = init_cmd
    /\ last = [op |-> "__init__", arg |-> NoArg, log |-> << >>, out |-> ReturnedNone,
               afterClose |-> FALSE, prev |-> "none"]
    /\ resources = "held"
    /\ thread = [c \in Callers |-> Idle]
    /\ pending = NoPending
    /\ started = 0
    /\ misread = FALSE

\* a caller enters one of the reading methods
CallOp(c) ==
    /\ thread[c].pc = "idle"
    /\ started < MaxConcCalls
    /\ \E op \in ReadingOps :
          thread' = [thread EXCEPT ![c] = [Idle EXCEPT !.op = op, !.pc = "write"]]
    /\ started' = started + 1
    /\ UNCHANGED <<pending, misread, seqVars>>

\* self._cmd_w.write(cmd)
SendCmd(c) ==
    /\ thread[c].pc = "write"
    /\ \E w \in WriteAnswers :
          IF w
          THEN LET a == DeviceAnswer(c, CmdOf(thread[c].op, thread[c].x))
               IN  /\ pending' = [ch \in DOMAIN pending |-> pending[ch] \o a[ch]]
                   /\ thread' = [thread EXCEPT ![c].pc =
                         IF thread[c].op = "request_spectra" THEN "read_lo"
                         ELSE "read"]
          ELSE /\ thread' = [thread EXCEPT ![c] = Ended(c, "USBError")]
               /\ UNCHANGED pending
    /\ UNCHANGED <<started, misread, seqVars>>

\* a read of channel ch by caller c: the oldest response waiting there
Take(c, ch) ==
    /\ pending[ch] # << >>
    /\ pending' = [pending EXCEPT ![ch] = Tail(pending[ch])]
    /\ misread' = (misread \/ Head(pending[ch]).owner # c)

TimedOut(c, ch) ==
    /\ pending[ch] = << >>
    /\ thread' = [thread EXCEPT ![c] = Ended(c, "USBError")]
    /\ UNCHANGED <<pending, misread>>

\* self._cmd_r.read(size, timeout) and what the method does with the response
RecvCmd(c) ==
    /\ thread[c].pc = "read"
    /\ \/ TimedOut(c, "cmd_r")
       \/ /\ Take(c, "cmd_r")
          /\ LET t == thread[c]
                 resp == Bytes(Cut(Head(pending["cmd_r"]).buf, ReadSizeOf(t.op)))
             IN  thread' = [thread EXCEPT ![c] =
                    CASE t.op = "query_config" ->
                           IF ~ConfigEchoOk(resp, t.x) THEN Ended(c, "AssertionError")
                           ELSE IF t.x + 1 >= NUM_REGS THEN Ended(c, "value")
                           ELSE [t EXCEPT !.pc = "write", !.x = t.x + 1]
                      [] t.op = "read_temp" -> Ended(c, DecodeTemp(resp).kind)
                      [] t.op = "firmware_version" ->
                           Ended(c, DecodeFirmware(resp).kind)
                      [] OTHER -> Ended(c, DecodeStatus(resp).kind)]
    /\ UNCHANGED <<started, seqVars>>

\* data_lo = self._spec_lo.read(512*4, timeout=20)
RecvLo(c) ==
    /\ thread[c].pc = "read_lo"
    /\ \/ TimedOut(c, "spec_lo")
       \/ /\ Take(c, "spec_lo")
          /\ thread' = [thread EXCEPT ![c].pc = "read_hi",
                           ![c].lo = Cut(Head(pending["spec_lo"]).buf, LO_BYTES)]
    /\ UNCHANGED <<started, seqVars>>

\* data_hi = self._spec_hi.read(512*11, timeout=20)
RecvHi(c) ==
    /\ thread[c].pc = "read_hi"
    /\ \/ TimedOut(c, "spec_hi")
       \/ /\ Take(c, "spec_hi")
          /\ thread' = [thread EXCEPT ![c].pc = "read_sync",
                           ![c].hi = Cut(Head(pending["spec_hi"]).buf, HI_BYTES)]
    /\ UNCHANGED <<started, seqVars>>

\* data_sync = self._spec_hi.read(1, timeout=20), the assertion and the frame
RecvSync(c) ==
    /\ thread[c].pc = "read_sync"
    /\ \/ TimedOut(c, "spec_hi")
       \/ /\ Take(c, "spec_hi")
          /\ thread' = [thread EXCEPT ![c] =
                Ended(c, Assemble(Bytes(thread[c].lo), Bytes(thread[c].hi),
                                  Bytes(Cut(Head(pending["spec_hi"]).buf, 1))).kind)]
    /\ UNCHANGED <<started, seqVars>>

NextConc ==
    \/ \E c \in Callers : CallOp(c)
    \/ \E c \in Callers : SendCmd(c)
    \/ \E c \in Callers : RecvCmd(c)
    \/ \E c \in Callers : RecvLo(c)
    \/ \E c \in Callers : RecvHi(c)
    \/ \E c \in Callers : RecvSync(c)

SpecConc == InitConc /\ [][NextConc]_vars

----
\* Properties.

\* the reads of log before position i
ReadsBefore(log, i) == Cardinality({j \in 1..(i - 1) : log[j].call = "read"})

\* the bytes the i-th entry of the last operation's log read
Got(i) == Bytes(last.log[i].got)

\* C1: for every integer dt, set_integration_time(dt) writes to command-out
\* the opcode 0x02 followed by the 4-byte little-endian encoding of dt clamped
\* to [10, 65535000]: 10 below 10, 65535000 above 65535000, dt otherwise.
C1_IntegrationTimeEncoded ==
    (last.op = "set_integration_time" /\ last.arg.type = "int") =>
        LET dt == last.arg.val
            want == IF dt < 10 THEN 10 ELSE IF dt > 65535000 THEN 65535000 ELSE dt
        IN  /\ Len(last.log) = 1
            /\ last.log[1].ch = "cmd_w" /\ last.log[1].call = "write"
            /\ LET d == last.log[1].data
               IN  /\ Len(d) = 5
                   /\ d[1] = 2
                   /\ \A i \in 2..5 : d[i] \in 0..255
                   /\ d[2] + 256 * d[3] + 65536 * d[4] + 16777216 * d[5] = want

\* C1's case: a value above the range was written as 65535000 (18 FC E7 03)
C1_Witness ==
    /\ last.op = "set_integration_time" /\ last.arg.type = "int"
    /\ last.arg.val = 65535001
    /\ last.log = <<Write(<<2, 24, 252, 231, 3>>, TRUE)>>
    /\ last.out.kind = "value"

\* C2: whenever request_spectra returns a frame, the frame has exactly 3840
\* samples, sample i (0 <= i <= 1023) is the i-th little-endian u16 of the
\* low-channel read and sample 1024 + j (0 <= j <= 2815) is the j-th
\* little-endian u16 of the high-channel read.
C2_FrameIsTheTwoReads ==
    (last.op = "request_spectra" /\ last.out.kind = "value") =>
        LET frame == last.out.val
            lo == Got(2)
            hi == Got(3)
        IN  /\ last.log[2].ch = "spec_lo" /\ last.log[3].ch = "spec_hi"
            /\ Len(frame) = 3840
            /\ \A i \in 0..1023 :
                  /\ 2 * i + 2 <= Len(lo)
                  /\ frame[i + 1] = lo[2 * i + 1] + 256 * lo[2 * i + 2]
            /\ \A j \in 0..2815 :
                  /\ 2 * j + 2 <= Len(hi)
                  /\ frame[1024 + j + 1] = hi[2 * j + 1] + 256 * hi[2 * j + 2]

\* C3: whenever the byte read after the spectrum is not 0x69, request_spectra
\* fails on its assertion and returns no frame; a frame is returned only when
\* that byte is 0x69.
C3_SyncByteChecked ==
    last.op = "request_spectra" =>
        /\ last.out.kind = "value" =>
              /\ Len(last.log) = 4
              /\ last.log[4].ch = "spec_hi" /\ last.log[4].size = 1
              /\ last.log[4].ok
              /\ Got(4) = <<105>>
        /\ (/\ Len(last.log) = 4
            /\ last.log[4].ok
            /\ Len(Got(4)) = 1
            /\ Got(4)[1] # 105) => last.out.kind = "AssertionError"

\* C3's case: both spectral reads were full, the byte after them was 0x68
C3_Witness ==
    /\ last.op = "request_spectra"
    /\ Len(last.log) = 4
    /\ last.log[2].ok /\ last.log[2].got.n = 2048
    /\ last.log[3].ok /\ last.log[3].got.n = 5632
    /\ last.log[4].ok /\ Got(4) = <<104>>
    /\ last.out.kind = "AssertionError"

\* the 19 register names
C4_Names ==
    {"serial_number", "0_order_wavelength_coeff", "1_order_wavelength_coeff",
     "2_order_wavelength_coeff", "3_order_wavelength_coeff", "stray_light_constant",
     "0_order_nonlinear_coeff", "1_order_nonlinear_coeff", "2_order_nonlinear_coeff",
     "3_order_nonlinear_coeff", "4_order_nonlinear_coeff", "5_order_nonlinear_coeff",
     "6_order_nonlinear_coeff", "7_order_nonlinear_coeff", "polynomial_order",
     "bench_configuration", "USB4000_config", "autonull", "baud_rate"}

\* every transfer of the log succeeded and the k-th read (from 0) begins
\* with (0x05, k)
AllEchoed(log) ==
    \A i \in 1..Len(log) :
        /\ log[i].ok
        /\ log[i].call = "read" =>
              Slice(Bytes(log[i].got), 0, 2) = <<5, ReadsBefore(log, i)>>

Mismatches(log) ==
    {i \in 1..Len(log) :
        /\ log[i].call = "read" /\ log[i].ok
        /\ Slice(Bytes(log[i].got), 0, 2) # <<5, ReadsBefore(log, i)>>}

\* C5: if the response to register k does not begin with (0x05, k), the query
\* fails on its assertion, returns no mapping, and makes no transfer after
\* that response: no command for a register above k is written.
C5_ConfigAbortsOnMismatch ==
    last.op = "query_config" =>
        \A i \in Mismatches(last.log) :
            /\ last.out.kind = "AssertionError"
            /\ i = Len(last.log)
            /\ \A j \in 1..Len(last.log) :
                  last.log[j].call = "write" =>
                      last.log[j].data[2] <= ReadsBefore(last.log, i)

\* C5's case: register 7 was answered with the echo of register 8
C5_Witness ==
    /\ last.op = "query_config"
    /\ Len(last.log) = 16
    /\ last.log[15].data = <<5, 7>>
    /\ Slice(Got(16), 0, 2) = <<5, 8>>
    /\ last.out.kind = "AssertionError"

\* the operations C6 names
C6_Ops == {"set_integration_time", "set_trigger_mode", "query_config", "read_temp",
           "firmware_version", "request_spectra", "get_status", "init", "reset"}

\* C6: after close(), every public operation on the session fails with an
\* invalid-state error and makes no transfer on any of the four channels.
C6_ClosedSessionRejects ==
    (last.afterClose /\ last.op \in C6_Ops) =>
        /\ last.out.kind = "InvalidStateError"
        /\ ChannelEntries(last.log) = {}

\* C7 as claimed: in a session, the initialize command is written to
\* command-out exactly once, whatever public operations are called.
C7_InitWrittenOnce == session = "open" => initWrites = 1

\* C7 as amended: the initialize command is written once by the construction
\* of the session and once more by each explicit init() call whose write
\* succeeds; no other operation writes it.
C7_InitWrittenOncePerInit ==
    /\ session = "absent" => initWrites = 0
    /\ session = "open" => initWrites = 1 + initCalls

\* C7's case: init() was called twice, and other operations after it
C7_Witness ==
    /\ session = "open"
    /\ initCalls = 2 /\ initWrites = 3
    /\ last.op = "set_trigger_mode" /\ last.out.kind = "value"

\* the positions of the entries of log that are the call `call'
CallsAt(log, call) == {i \in 1..Len(log) : log[i].call = call}

\* C8: the construction of a session resets the device, then binds the four
\* channel handles, then writes opcode 0x01; the first byte sequence written
\* to command-out in a session is the initialize command.
C8_InitIsFirstCommand ==
    /\ firstCmd \in {<< >>, <<1>>}
    /\ session = "open" => firstCmd = <<1>>
    /\ (last.op = "__init__" /\ last.out.kind = "None") =>
          LET log == last.log
              n == Len(log)
          IN  /\ session = "open"
              /\ Cardinality(CallsAt(log, "reset")) = 1
              /\ {log[i].data : i \in CallsAt(log, "find_descriptor")}
                    = {<<1>>, <<130>>, <<134>>, <<129>>}
              /\ \A i \in CallsAt(log, "reset") :
                    \A j \in CallsAt(log, "find_descriptor") : log[i].ok /\ i < j
              /\ CallsAt(log, "write") = {n}
              /\ \A j \in CallsAt(log, "find_descriptor") : j < n
              /\ log[n].ch = "cmd_w" /\ log[n].ok /\ log[n].data = <<1>>

\* C8's case: a session was constructed and has since written another command
C8_Witness ==
    /\ session = "open"
    /\ last.op = "read_temp" /\ last.log[1].ok
    /\ firstCmd = <<1>>

\* the operations that read a response from command-in
C10_Ops == {"query_config", "read_temp", "firmware_version", "get_status"}

\* C10 as claimed: an operation that reads from command-in returns a value
\* only if byte 0 of each response is the opcode of the command sent and, for
\* query_config and firmware_version, byte 1 is the parameter sent.
C10_EchoIsOpcode ==
    (last.op \in C10_Ops /\ last.out.kind = "value") =>
        \A i \in CallsAt(last.log, "read") :
            /\ Slice(Got(i), 0, 1) = Slice(last.log[i - 1].data, 0, 1)
            /\ last.op \in {"query_config", "firmware_version"} =>
                  Slice(Got(i), 1, 2) = Slice(last.log[i - 1].data, 1, 2)

\* C10 as amended: query_config returns a mapping only if every response
\* begins with the two bytes (0x05, index) of the command it answers;
\* read_temp returns a value only if byte 0 of its response is 0x08, which is
\* not its opcode 0x6C; firmware_version and get_status check nothing in the
\* response and return a value for every response that is long enough.
C10_EchoAsChecked ==
    /\ (last.op = "query_config" /\ last.out.kind = "value") =>
          \A i \in CallsAt(last.log, "read") :
              /\ last.log[i - 1].data[1] = 5
              /\ Slice(Got(i), 0, 2) = last.log[i - 1].data
    /\ (last.op = "read_temp" /\ last.out.kind = "value") =>
          /\ last.log[1].data = <<108>>
          /\ Slice(Got(2), 0, 1) = <<8>>
    /\ (last.op = "firmware_version" /\ Len(last.log) = 2 /\ last.log[2].ok
          /\ Len(Got(2)) = 3) => last.out.kind = "value"
    /\ (last.op = "get_status" /\ Len(last.log) = 2 /\ last.log[2].ok
          /\ Len(Got(2)) >= 15) => last.out.kind = "value"

\* C10's case: read_temp returned a value for a response that begins with
\* 0x08, not with its opcode
C10_Witness ==
    /\ last.op = "read_temp"
    /\ last.log[1].data = <<108>> /\ last.log[1].ok
    /\ Got(2) = <<8, 255, 255>>
    /\ last.out = Returned(0 - 3906)

\* the callers that have written a command whose responses are not all read
C9_InExchange == {c \in Callers : thread[c].pc \in {"read", "read_lo", "read_hi",
                                                   "read_sync"}}

\* C9: when two callers invoke response-reading operations on one session
\* concurrently, whole exchanges are serialized: no caller writes its command
\* between another caller's write and that caller's last read, and every
\* response is read by the caller whose command produced it.
C9_ExchangesSerialized ==
    /\ Cardinality(C9_InExchange) <= 1
    /\ ~misread

\* C11: no public operation retries: when a write or a read on a channel
\* fails, the operation makes no further transfer on any channel, does not
\* write its command again, and ends with that error instead of a value.
C11_NoRetry ==
    /\ \A i \in 1..Len(last.log) :
          (last.log[i].ch \in Channels /\ ~last.log[i].ok) =>
              /\ i = Len(last.log)
              /\ last.out.kind = "USBError"
    /\ \A i, j \in CallsAt(last.log, "write") :
          i # j => last.log[i].data # last.log[j].data

\* C11's case: request_spectra whose high-channel read failed after the
\* command and the low-channel read had gone through
C11_Witness ==
    /\ last.op = "request_spectra"
    /\ Len(last.log) = 3
    /\ last.log[1].ok /\ last.log[2].ok /\ last.log[2].ch = "spec_lo"
    /\ last.log[3].ch = "spec_hi" /\ ~last.log[3].ok
    /\ last.out.kind = "USBError"

C13_LowReads ==
    {i \in 1..Len(last.log) : last.log[i].ch = "spec_lo" /\ last.log[i].call = "read"}

\* C13 as stated: request_spectra requests exactly 4096 bytes from the low
\* spectral channel in its low-channel read.
C13_LowReadIs4096 ==
    last.op = "request_spectra" =>
        \A i \in C13_LowReads : last.log[i].size = 4096

\* C13: request_spectra requests exactly 2048 bytes (512*4, the 1024
\* two-byte samples of the low segment) from the low spectral channel, in the
\* one read it makes there once its command has been written.
C13_LowReadIs2048 ==
    last.op = "request_spectra" =>
        /\ \A i \in C13_LowReads : last.log[i].size = 2048
        /\ last.log[1].ok => C13_LowReads = {2}
        /\ ~last.log[1].ok => C13_LowReads = {}

\* C13's case: the low-channel read was made and answered in full
C13_Witness ==
    /\ last.op = "request_spectra"
    /\ C13_LowReads = {2}
    /\ last.log[2].ok /\ last.log[2].size = 2048 /\ Len(Got(2)) = 2048

\* the transfers of request_spectra, in order: channel, call, bytes written
\* or asked for
C14_Order ==
    <<[ch |-> "cmd_w", call |-> "write", size |-> 1],
      [ch |-> "spec_lo", call |-> "read", size |-> 2048],
      [ch |-> "spec_hi", call |-> "read", size |-> 5632],
      [ch |-> "spec_hi", call |-> "read", size |-> 1]>>

\* C14: every invocation of request_spectra makes its transfers in one
\* order: the write of opcode 0x09 on command-out, the read on the low
\* spectral channel, the 5632-byte read and then the 1-byte read on the high
\* spectral channel, each once and all four unless a transfer fails; the
\* sync-byte check is made only after all three reads, and command-in is
\* never read.
C14_TransferOrder ==
    last.op = "request_spectra" =>
        /\ Len(last.log) \in 1..4
        /\ \A i \in 1..Len(last.log) :
              /\ last.log[i].ch = C14_Order[i].ch
              /\ last.log[i].call = C14_Order[i].call
              /\ last.log[i].size = C14_Order[i].size
        /\ last.log[1].data = <<9>>
        /\ (\A i \in 1..Len(last.log) : last.log[i].ok) => Len(last.log) = 4
        /\ last.out.kind \in {"AssertionError", "value"} =>
              /\ Len(last.log) = 4
              /\ \A i \in 1..4 : last.log[i].ok

\* C14's case: a complete acquisition, four transfers and a frame returned
C14_Witness ==
    /\ last.op = "request_spectra"
    /\ Len(last.log) = 4
    /\ last.log[4].size = 1 /\ Got(4) = <<105>>
    /\ last.out.kind = "value"
    /\ Len(last.out.val) = 3840

\* the two setters
C15_Ops == {"set_integration_time", "set_trigger_mode"}

\* C15 as stated: every invocation of set_integration_time or
\* set_trigger_mode with an integer argument performs exactly one write on
\* command-out and no read.
C15_IntegerAlwaysWrites ==
    (last.op \in C15_Ops /\ last.arg.type \in {"int", "bool"}) =>
        /\ Len(last.log) = 1
        /\ last.log[1].ch = "cmd_w" /\ last.log[1].call = "write"

\* C15: the setters never read, on any channel. set_integration_time with
\* an integer argument makes exactly one write on command-out;
\* set_trigger_mode with an integer mode in 0..65535 makes exactly one write
\* on command-out, of opcode 0x0A followed by the 2-byte little-endian mode,
\* and with an integer mode outside 0..65535 it fails in the encoding and
\* writes nothing.
C15_FireAndForget ==
    last.op \in C15_Ops =>
        /\ \A i \in 1..Len(last.log) :
              last.log[i].ch = "cmd_w" /\ last.log[i].call = "write"
        /\ (last.op = "set_integration_time" /\ last.arg.type \in {"int", "bool"}) =>
              Len(last.log) = 1
        /\ (last.op = "set_trigger_mode" /\ last.arg.type \in {"int", "bool"}) =>
              IF last.arg.val \in 0..65535
              THEN /\ Len(last.log) = 1
                   /\ last.log[1].data =
                         <<10, last.arg.val % 256, last.arg.val \div 256>>
              ELSE /\ last.log = << >>
                   /\ last.out.kind = "struct.error"

\* C15's case: set_trigger_mode(258) wrote 0A 02 01 and read nothing
C15_Witness ==
    /\ last.op = "set_trigger_mode" /\ last.arg = [type |-> "int", val |-> 258]
    /\ last.log = <<Write(<<10, 2, 1>>, TRUE)>>
    /\ last.out = Returned(3)

\* C16: firmware_version writes 6B 04, reads 3 bytes from command-in and,
\* whatever byte 0 of a 3-byte response is, returns 256 * b1 + b2; it never
\* fails on an echo check.
C16_FirmwareUnchecked ==
    last.op = "firmware_version" =>
        /\ last.log[1].ch = "cmd_w" /\ last.log[1].data = <<107, 4>>
        /\ last.log[1].ok =>
              /\ Len(last.log) = 2
              /\ last.log[2].ch = "cmd_r" /\ last.log[2].call = "read"
              /\ last.log[2].size = 3
              /\ (last.log[2].ok /\ Len(Got(2)) = 3) =>
                    last.out = Returned(256 * Got(2)[2] + Got(2)[3])
        /\ last.out.kind # "AssertionError"

\* C16's case: the response 6B 01 2C, whose byte 0 is not 04, gave 300
C16_Witness ==
    /\ last.op = "firmware_version"
    /\ Len(last.log) = 2
    /\ Got(2) = <<107, 1, 44>>
    /\ last.out = Returned(300)

\* C17: read_temp writes 6C and reads 3 bytes from command-in; on a 3-byte
\* response it fails exactly when byte 0 is not 08, and otherwise returns
\* t * 0.003906 (here in millionths, t * 3906) where t is b1 + 256 * b2,
\* less 65536 when that is 32768 or more; 08 64 00 gives t = 100, 0.3906.
C17_TempDecoded ==
    last.op = "read_temp" =>
        /\ last.log[1].ch = "cmd_w" /\ last.log[1].data = <<108>>
        /\ last.log[1].ok =>
              /\ Len(last.log) = 2
              /\ last.log[2].ch = "cmd_r" /\ last.log[2].call = "read"
              /\ last.log[2].size = 3
              /\ (last.log[2].ok /\ Len(Got(2)) = 3) =>
                    LET u == Got(2)[2] + 256 * Got(2)[3]
                        t == IF u >= 32768 THEN u - 65536 ELSE u
                    IN  IF Got(2)[1] # 8
                        THEN last.out.kind = "AssertionError"
                        ELSE last.out = Returned(t * 3906)
              /\ (last.log[2].ok /\ Got(2) = <<8, 100, 0>>) =>
                    last.out = Returned(390600)

\* C17's case: the response 08 00 80, t = -32768
C17_Witness ==
    /\ last.op = "read_temp"
    /\ Len(last.log) = 2
    /\ Got(2) = <<8, 0, 128>>
    /\ last.out = Returned((0 - 32768) * 3906)

\* C18: get_status decodes a 16-byte response at fixed offsets, little-endian:
\* pixel count from bytes 0-1, integration time from bytes 2-5, lamp enable
\* = (byte 6 # 0), trigger mode = byte 7, acquisition status = byte 8,
\* packets per spectrum = byte 9, power down = (byte 10 # 0), packet count =
\* byte 11, USB speed = byte 14; bytes 12, 13 and 15 do not enter the result.
C18_StatusOffsets ==
    (/\ last.op = "get_status"
     /\ Len(last.log) = 2
     /\ last.log[2].ok
     /\ Len(Got(2)) = 16) =>
        LET b == Got(2)
        IN  last.out = Returned(
                [num_pixels |-> b[1] + 256 * b[2],
                 integration_time |->
                     b[3] + 256 * b[4] + 65536 * b[5] + 16777216 * b[6],
                 lamp_enable |-> b[7] # 0,
                 trigger_mode |-> b[8],
                 acq_status |-> b[9],
                 packets_in_spectra |-> b[10],
                 power_down |-> b[11] # 0,
                 packet_count |-> b[12],
                 usb_speed |-> b[15]])

\* C18's case: the example block with bytes 12, 13 and 15 changed to 07, 09
\* and 01 decodes to what the example block decodes to
C18_Witness ==
    /\ last.op = "get_status"
    /\ Len(last.log) = 2
    /\ Got(2) = <<2, 0, 16, 39, 0, 0, 1, 0, 0, 1, 0, 5, 7, 9, 2, 1>>
    /\ last.out = Returned(
           [num_pixels |-> 2, integration_time |-> 10000, lamp_enable |-> TRUE,
            trigger_mode |-> 0, acq_status |-> 0, packets_in_spectra |-> 1,
            power_down |-> FALSE, packet_count |-> 5, usb_speed |-> 2])

\* the (0x05, index) commands written less the 64-byte responses read from
\* command-in, over the first k transfers of the last operation
C19_Outstanding(k) ==
    Cardinality({i \in 1..k :
        /\ last.log[i].ch = "cmd_w" /\ last.log[i].ok
        /\ Len(last.log[i].data) = 2 /\ last.log[i].data[1] = 5})
    - Cardinality({i \in 1..k :
        /\ last.log[i].ch = "cmd_r" /\ last.log[i].ok
        /\ last.log[i].size = 64})

\* C19: at every point of query_config the number of (0x05, index) commands
\* written less the number of 64-byte responses read from command-in is 0
\* or 1, and it is 0 when a mapping is returned; writes and reads alternate,
\* so no command is written while the response to the one before is unread.
C19_StrictAlternation ==
    last.op = "query_config" =>
        /\ \A k \in 0..Len(last.log) : C19_Outstanding(k) \in {0, 1}
        /\ \A i \in 1..Len(last.log) :
              last.log[i].call = IF i % 2 = 1 THEN "write" ELSE "read"
        /\ \A i \in 1..Len(last.log) :
              last.log[i].call = "write" => C19_Outstanding(i - 1) = 0
        /\ last.out.kind = "value" =>
              /\ Len(last.log) = 38
              /\ C19_Outstanding(38) = 0

\* C19's case: a query that ran to the end, 19 commands and 19 responses
C19_Witness ==
    /\ last.op = "query_config"
    /\ last.out.kind = "value"
    /\ Len(last.log) = 38
    /\ C19_Outstanding(37) = 1
    /\ C19_Outstanding(38) = 0

\* C20: set_integration_time and set_trigger_mode called with an argument
\* that is not an integer write nothing to any channel, raise no error and
\* return no value (None): an outcome that is neither a value nor an error.
C20_NonIntegerIsSilent ==
    (/\ last.op \in {"set_integration_time", "set_trigger_mode"}
     /\ last.arg.type \notin {"int", "bool"}) =>
        /\ last.log = << >>
        /\ last.out = ReturnedNone

\* C20's case: set_integration_time(1000.0) did nothing and returned None
C20_Witness ==
    /\ last.op = "set_integration_time"
    /\ last.arg = [type |-> "float", val |-> 1000]
    /\ last.log = << >>
    /\ last.out.kind = "None"

====
